---- MODULE Spec2Model ----
(***************************************************************************)
(* Call-state reconciliation of the Wisp call-screening backend            *)
(* (src/backend/main.py, src/backend/database.py).                        *)
(*                                                                         *)
(* State: the durable store (table calls), the in-memory registry          *)
(* active_calls, a clock read by datetime.utcnow(), and the request        *)
(* handlers in flight.  A handler is a coroutine: one step of the model    *)
(* is the completion of the operation it awaited (a store read, a store    *)
(* write, a remote POST) followed by the synchronous code up to its next   *)
(* await.  analyze_with_gemini contains no await, so classification is     *)
(* part of the step that starts a screening request.                       *)
(*                                                                         *)
(* Time is counted in request arrivals: every request arrives later than   *)
(* the one before it, and datetime.utcnow() in a handler step returns the  *)
(* time of the latest arrival.                                             *)
(***************************************************************************)
EXTENDS Integers, Sequences, FiniteSets, TLC

\* ---------------------------------------------------------------- bounds
MaxSignals == 3
MaxFaults == 1
MaxRestarts == 1
MaxLines == 2
MaxWords == 6

\* ------------------------------------------------------ program constants
RetryCount == 3

\* the repository holds two applications over the same store module:
\* backend/main.py, and the older main.py whose handlers do not read the
\* store before they write and whose transfer has no precondition
Apps == {"backend", "root"}

CallIds == {"X", "Y"}
Procs == {1, 2}
Verdict == {"SCAM", "SAFE"}
Responses == {"200", "404", "401", "400", "500", "neterr"}

NULL == "NULL"
NoTime == 0

WISP_PHONE == "+14702282477"

StrColumns ==
  {"call_id", "from_number", "to_number", "status", "screening_verdict",
   "screening_summary", "transcript", "transfer_target", "transferred_to"}

TimeColumns ==
  {"started_at", "screened_at", "terminated_at", "transfer_initiated_at",
   "transferred_at", "ended_at", "created_at", "updated_at"}

Columns == StrColumns \cup TimeColumns \cup {"transfer_initiated"}

\* A row of table calls with every column NULL (transfer_initiated holds 0/1).
NullRow ==
  [call_id |-> NULL, from_number |-> NULL, to_number |-> NULL,
   started_at |-> NoTime, status |-> NULL, screening_verdict |-> NULL,
   screening_summary |-> NULL, screened_at |-> NoTime, transcript |-> NULL,
   terminated_at |-> NoTime, transfer_initiated |-> 0, transfer_target |-> NULL,
   transfer_initiated_at |-> NoTime, transferred_to |-> NULL,
   transferred_at |-> NoTime, ended_at |-> NoTime, created_at |-> NoTime,
   updated_at |-> NoTime]

\* ----------------------------------------------------------- Python dicts
\* A dict over the column names: the keys present and their values; a key
\* that is absent holds the NullRow value, which is what .get(key) returns.
EmptyDict == [keys |-> {}, val |-> NullRow]

Has(d, f) == f \in d.keys

Get(d, f) == d.val[f]

Set(d, f, v) == [keys |-> d.keys \cup {f}, val |-> [d.val EXCEPT ![f] = v]]

\* a.update(b)
Update(a, b) ==
  [keys |-> a.keys \cup b.keys,
   val |-> [f \in Columns |-> IF f \in b.keys THEN b.val[f] ELSE a.val[f]]]

\* dict(row) of a fetched row: every column is a key
RowDict(row) == [keys |-> Columns, val |-> row]

\* ------------------------------------------------------------------ state
VARIABLES
  store,         \* table calls: a set of rows
  active_calls,  \* the registry: call_id -> dict
  clock,         \* what datetime.utcnow() returns: the time of the latest arrival
  procs,         \* the request handlers in flight
  nsig,          \* arrivals so far, one that overlaps counted twice
  faults,        \* store operations that failed so far
  restarts,      \* process restarts so far
  overlaps,      \* requests that arrived while a handler was in flight
  hist,          \* completed signals, in completion order
  ids,           \* the call_ids requests arrive for
  app,           \* which of the two applications runs
  classifier,    \* what ollama gave for the transcript under analysis
  analysis       \* what analyze_with_gemini returned for it

vars ==
  <<store, active_calls, clock, procs, nsig, faults, restarts, overlaps,
    hist, ids, app, classifier, analysis>>

\* call_info of the transfer endpoint's response, before it is filled
NoCallInfo ==
  [in_active_calls |-> FALSE, active_call_status |-> NULL,
   in_database |-> FALSE, db_status |-> NULL]

IdleProc ==
  [kind |-> "idle", cid |-> NULL, pc |-> "idle", data |-> EmptyDict,
   aliased |-> FALSE, now |-> NoTime, wkind |-> "none", ret |-> "none",
   ts |-> NoTime, verdict |-> NULL, transcript |-> NULL, attempt |-> 0,
   posts |-> 0, retryFails |-> 0, otherFails |-> 0, oks |-> 0,
   termCalls |-> 0, transCalls |-> 0, outcome |-> "none", response |-> NULL,
   overlapped |-> FALSE, notFounds |-> 0, use_custom |-> FALSE,
   call_info |-> NoCallInfo]

\* ------------------------------------------------------------------ store
\* SELECT * FROM calls WHERE call_id = ? ; fetchone().  <<>> is None.
\* (call_id = NULL matches no row in SQL.)
get_call_ok(rows, c) ==
  LET m == {r \in rows : r.call_id = c /\ c # NULL}
  IN IF m = {} THEN <<>> ELSE <<CHOOSE r \in m : TRUE>>

\* the params dict of create_or_update_call
Params(d) ==
  [f \in Columns |->
     IF f = "transfer_initiated"
       THEN (IF Get(d, f) = 1 THEN 1 ELSE 0)
       ELSE Get(d, f)]

\* a faulty write, for comparison: INSERT without the primary key
InsertOrReplace_Insert(rows, row) == rows \cup {row}

\* INSERT OR REPLACE INTO calls: the row with the same primary key goes
InsertOrReplace(rows, row) ==
  {r \in rows : ~(r.call_id = row.call_id /\ row.call_id # NULL)} \cup {row}


\* ------------------------------------------------- handler bookkeeping
InFlight(q) == procs[q].pc \notin {"idle", "done"}

AllIdle == \A q \in Procs : procs[q].pc = "idle"

Busy == \E q \in Procs : InFlight(q)

\* The runs explored: an arrival takes one unit of MaxSignals, an arrival
\* while another handler is between its awaits takes two.
Cost == IF Busy THEN 2 ELSE 1

\* a new request takes the lowest free handler slot, once the handlers
\* that have finished have sent their responses
CanStart(p) ==
  /\ nsig + Cost <= MaxSignals
  /\ \A q \in Procs : procs[q].pc # "done"
  /\ procs[p].pc = "idle"
  /\ \A q \in Procs : q < p => procs[q].pc # "idle"

\* another handler for the same call_id is between its awaits
Overlaps(p, c) == \E q \in Procs : q # p /\ InFlight(q) /\ procs[q].cid = c

NewProc(p, kind, c) ==
  [IdleProc EXCEPT !.kind = kind, !.cid = c, !.overlapped = Overlaps(p, c)]

\* procs after handler p starts as np for call c
Started(p, c, np) ==
  [q \in Procs |->
     IF q = p THEN np
     ELSE IF InFlight(q) /\ procs[q].cid = c
       THEN [procs[q] EXCEPT !.overlapped = TRUE]
       ELSE procs[q]]

InRegistry(c) == c \in DOMAIN active_calls

\* a faulty registry, for comparison: the new entry replaces the registry
RegPut_Reset(reg, c, d) == [k \in {c} |-> d]

\* active_calls[c] = d
RegPut(reg, c, d) ==
  [k \in DOMAIN reg \cup {c} |-> IF k = c THEN d ELSE reg[k]]

\* the handler returns: its locals die
Finish(pr) ==
  [pr EXCEPT !.pc = "done", !.data = EmptyDict, !.now = NoTime,
             !.wkind = "none", !.ret = "none", !.ts = NoTime,
             !.response = IF pr.kind = "screen" THEN pr.verdict ELSE "ok"]

\* ------------------------------------------- create_or_update_call
\* Entry with a call_data dict d the caller owns, up to the first await:
\* now is taken first; created_at is looked up only when the key is absent.
create_or_update_call_enter(pr, d, wkind, ret, t) ==
  IF Has(d, "created_at")
    THEN [pr EXCEPT !.data = Set(d, "updated_at", t), !.now = t,
                    !.wkind = wkind, !.ret = ret, !.pc = "cu_write"]
    ELSE [pr EXCEPT !.data = d, !.now = t,
                    !.wkind = wkind, !.ret = ret, !.pc = "cu_get"]

\* call_data["created_at"], call_data["updated_at"] after get_call returned
Stamp(d, existing, now) ==
  Set(Set(d, "created_at",
          IF existing # <<>> THEN existing[1].created_at ELSE now),
      "updated_at", now)

\* existing = await get_call(call_id); get_call answers None when the store
\* read fails.  call_started passes the dict that is also active_calls[c].
create_or_update_call_get(p) ==
  /\ procs[p].pc = "cu_get"
  /\ \E fail \in BOOLEAN :
       /\ fail => faults < MaxFaults
       /\ faults' = IF fail THEN faults + 1 ELSE faults
       /\ LET pr == procs[p]
              existing == IF fail THEN <<>> ELSE get_call_ok(store, pr.cid)
          IN IF pr.aliased
               THEN /\ active_calls' =
                         [active_calls EXCEPT
                            ![pr.cid] = Stamp(@, existing, pr.now)]
                    /\ procs' = [procs EXCEPT ![p].pc = "cu_conn"]
               ELSE /\ procs' =
                         [procs EXCEPT
                            ![p].data = Stamp(@, existing, pr.now),
                            ![p].pc = IF pr.kind = "call_started"
                                        THEN "cu_conn" ELSE "cu_write"]
                    /\ UNCHANGED active_calls
  /\ UNCHANGED <<store, clock, nsig, restarts, hist, ids, app, overlaps,
                 classifier, analysis>>

\* async with get_db_connection(): params is built from call_data once the
\* connection is open.  Only call_started's call_data is shared (it is the
\* registry entry), so only there can it have changed since the stamp.
create_or_update_call_connect(p) ==
  /\ procs[p].pc = "cu_conn"
  /\ procs' =
       [procs EXCEPT
          ![p].data = IF procs[p].aliased
                        THEN active_calls[procs[p].cid] ELSE @,
          ![p].aliased = FALSE,
          ![p].pc = "cu_write"]
  /\ UNCHANGED <<store, active_calls, clock, nsig, faults, restarts, hist, ids, app, overlaps,
                 classifier, analysis>>

\* ------------------------------------------------------ retell_webhook
\* a faulty record, for comparison: call_started merged into the entry the
\* registry already has
CallStartedRecord_KeepsEntry(c, started_at) ==
  LET fresh ==
        [keys |-> {"call_id", "from_number", "to_number", "started_at",
                   "status"},
         val |-> [NullRow EXCEPT !.call_id = c, !.from_number = "F",
                                 !.to_number = "T", !.started_at = started_at,
                                 !.status = "active"]]
  IN IF c \in DOMAIN active_calls THEN Update(active_calls[c], fresh)
     ELSE fresh

\* call_record of the call_started branch
CallStartedRecord(c, started_at) ==
  [keys |-> {"call_id", "from_number", "to_number", "started_at", "status"},
   val |-> [NullRow EXCEPT !.call_id = c, !.from_number = "F",
                           !.to_number = "T", !.started_at = started_at,
                           !.status = "active"]]

\* event call_started: active_calls[call_id] = call_record, then
\* create_or_update_call(call_record) on the same dict.  A handler that
\* still holds the replaced dict keeps it as its own.
Webhook_call_started(p, c) ==
  /\ CanStart(p)
  /\ active_calls' = RegPut(active_calls, c, CallStartedRecord(c, clock + 1))
  /\ procs' =
       [q \in Procs |->
          IF q = p
            THEN [NewProc(p, "call_started", c) EXCEPT
                    !.aliased = TRUE, !.now = clock + 1,
                    !.wkind = "call_started", !.ret = "done", !.pc = "cu_get"]
          ELSE IF procs[q].aliased /\ procs[q].cid = c
            THEN [procs[q] EXCEPT !.data = active_calls[c],
                                  !.aliased = FALSE, !.overlapped = TRUE]
          ELSE Started(p, c, procs[p])[q]]
  /\ clock' = clock + 1
  /\ nsig' = nsig + Cost
  /\ overlaps' = IF Busy THEN overlaps + 1 ELSE overlaps
  /\ UNCHANGED <<store, faults, restarts, hist, ids, app,
                 classifier, analysis>>

\* event call_ended, up to existing_call = await get_call(call_id)
\* a faulty call_ended record, for comparison: the event's fields alone
EndedRecord_EventOnly(c, ended_at, existing, reg) ==
  [keys |-> {"call_id", "status", "ended_at"},
   val |-> [NullRow EXCEPT !.call_id = c, !.status = "ended",
                           !.ended_at = ended_at]]

\* the call_record of call_ended: the event's fields, then the store row,
\* then the registry entry, then status and ended_at again
EndedRecord(c, ended_at, existing, reg) ==
  LET r0 == [keys |-> {"call_id", "status", "ended_at"},
             val |-> [NullRow EXCEPT !.call_id = c, !.status = "ended",
                                     !.ended_at = ended_at]]
      r1 == IF existing # <<>> THEN Update(r0, RowDict(existing[1])) ELSE r0
      r2 == IF c \in DOMAIN reg THEN Update(r1, reg[c]) ELSE r1
  IN Set(Set(r2, "status", "ended"), "ended_at", ended_at)

\* a faulty call_ended, for comparison: the ended call leaves the registry
Webhook_call_ended_Removes(p, c) ==
  /\ CanStart(p)
  /\ active_calls' = [k \in DOMAIN active_calls \ {c} |-> active_calls[k]]
  /\ LET np == [NewProc(p, "call_ended", c) EXCEPT !.ts = clock + 1]
     IN procs' =
          Started(p, c,
            IF app = "backend"
              THEN [np EXCEPT !.pc = "e_get"]
              ELSE create_or_update_call_enter(
                     np, EndedRecord(c, clock + 1, <<>>, active_calls),
                     "call_ended", "done", clock + 1))
  /\ clock' = clock + 1
  /\ nsig' = nsig + Cost
  /\ overlaps' = IF Busy THEN overlaps + 1 ELSE overlaps
  /\ UNCHANGED <<store, faults, restarts, hist, ids, app,
                 classifier, analysis>>

\* event call_ended: the entry (if any) takes status and ended_at, then the
\* handler awaits get_call (backend) or writes its record (older app)
Webhook_call_ended(p, c) ==
  /\ CanStart(p)
  /\ active_calls' =
       IF InRegistry(c)
         THEN [active_calls EXCEPT
                 ![c] = Set(Set(@, "status", "ended"), "ended_at", clock + 1)]
         ELSE active_calls
  /\ LET np == [NewProc(p, "call_ended", c) EXCEPT !.ts = clock + 1]
     IN procs' =
          Started(p, c,
            IF app = "backend"
              THEN [np EXCEPT !.pc = "e_get"]
              ELSE create_or_update_call_enter(
                     np, EndedRecord(c, clock + 1, <<>>, active_calls'),
                     "call_ended", "done", clock + 1))
  /\ clock' = clock + 1
  /\ nsig' = nsig + Cost
  /\ overlaps' = IF Busy THEN overlaps + 1 ELSE overlaps
  /\ UNCHANGED <<store, faults, restarts, hist, ids, app,
                 classifier, analysis>>

Webhook_call_ended_get(p) ==
  /\ procs[p].pc = "e_get"
  /\ \E fail \in BOOLEAN :
       /\ fail => faults < MaxFaults
       /\ faults' = IF fail THEN faults + 1 ELSE faults
       /\ LET pr == procs[p]
              existing == IF fail THEN <<>> ELSE get_call_ok(store, pr.cid)
              rec == EndedRecord(pr.cid, pr.ts, existing, active_calls)
          IN procs' =
               [procs EXCEPT
                  ![p] = create_or_update_call_enter(
                           pr, rec, "call_ended", "done", clock)]
  /\ UNCHANGED <<store, active_calls, clock, nsig, restarts, hist, ids, app, overlaps,
                 classifier, analysis>>

\* the call_record of call_transferred: the event's fields, then the
\* registry entry when there is one
TransferredRecord(c, transferred_at, reg) ==
  LET r0 == [keys |-> {"call_id", "transferred_to", "transferred_at"},
             val |-> [NullRow EXCEPT !.call_id = c, !.transferred_to = "P",
                                     !.transferred_at = transferred_at]]
  IN IF c \in DOMAIN reg THEN Update(r0, reg[c]) ELSE r0

Webhook_call_transferred(p, c) ==
  /\ CanStart(p)
  /\ LET reg == IF InRegistry(c)
                  THEN [active_calls EXCEPT
                          ![c] = Set(Set(@, "transferred_to", "P"),
                                     "transferred_at", clock + 1)]
                  ELSE active_calls
     IN /\ active_calls' = reg
        /\ procs' =
             Started(p, c,
               create_or_update_call_enter(
                 NewProc(p, "call_transferred", c),
                 TransferredRecord(c, clock + 1, reg),
                 "call_transferred", "done", clock + 1))
  /\ clock' = clock + 1
  /\ nsig' = nsig + Cost
  /\ overlaps' = IF Busy THEN overlaps + 1 ELSE overlaps
  /\ UNCHANGED <<store, faults, restarts, hist, ids, app,
                 classifier, analysis>>


\* ---------------------------------------------------------- wisp_screen
Transcripts == {"t1"}
SUMMARY == "five word summary of call"

\* A request with call_id and transcript present: analyze_with_gemini
\* answers (v, summary), the registry entry (if any) takes the screening
\* fields, and the handler awaits get_call(call_id).
\* a call_record of wisp_screen built without the store row
ScreenRecord_NoExisting(c, existing, reg, v, screened_at, tr) ==
  LET r0 == [keys |-> {"call_id"}, val |-> [NullRow EXCEPT !.call_id = c]]
      r2 == IF c \in DOMAIN reg THEN Update(r0, reg[c]) ELSE r0
  IN Set(Set(Set(Set(r2, "screening_verdict", v),
                 "screening_summary", SUMMARY),
             "screened_at", screened_at),
         "transcript", tr)

\* the call_record of wisp_screen: the store row, then the registry entry,
\* then the four screening fields last
ScreenRecord(c, existing, reg, v, screened_at, tr) ==
  LET r0 == [keys |-> {"call_id"}, val |-> [NullRow EXCEPT !.call_id = c]]
      r1 == IF existing # <<>> THEN Update(r0, RowDict(existing[1])) ELSE r0
      r2 == IF c \in DOMAIN reg THEN Update(r1, reg[c]) ELSE r1
  IN Set(Set(Set(Set(r2, "screening_verdict", v),
                 "screening_summary", SUMMARY),
             "screened_at", screened_at),
         "transcript", tr)

\* os.getenv("USE_CUSTOM_TRANSFER") as the SAFE branch of backend/main.py
\* will read it; the older application has no custom method
UseCustomTransfer(v) ==
  IF app = "backend" /\ v = "SAFE" THEN BOOLEAN ELSE {FALSE}

wisp_screen(p, c, tr, v) ==
  /\ CanStart(p)
  /\ active_calls' =
       IF InRegistry(c)
         THEN [active_calls EXCEPT
                 ![c] = Set(Set(Set(Set(@, "screening_verdict", v),
                                    "screening_summary", SUMMARY),
                                "screened_at", clock + 1),
                            "transcript", tr)]
         ELSE active_calls
  /\ \E use_custom_transfer \in UseCustomTransfer(v) :
       LET np == [NewProc(p, "screen", c) EXCEPT
                    !.verdict = v, !.transcript = tr, !.ts = clock + 1,
                    !.use_custom = use_custom_transfer]
       IN procs' =
            Started(p, c,
              IF app = "backend"
                THEN [np EXCEPT !.pc = "s_get"]
                ELSE create_or_update_call_enter(
                       np,
                       ScreenRecord(c, <<>>, active_calls', v, clock + 1, tr),
                       "screen", "act", clock + 1))
  /\ clock' = clock + 1
  /\ nsig' = nsig + Cost
  /\ overlaps' = IF Busy THEN overlaps + 1 ELSE overlaps
  /\ UNCHANGED <<store, faults, restarts, hist, ids, app,
                 classifier, analysis>>

wisp_screen_get(p) ==
  /\ procs[p].pc = "s_get"
  /\ \E fail \in BOOLEAN :
       /\ fail => faults < MaxFaults
       /\ faults' = IF fail THEN faults + 1 ELSE faults
       /\ LET pr == procs[p]
              existing == IF fail THEN <<>> ELSE get_call_ok(store, pr.cid)
              rec == ScreenRecord(pr.cid, existing, active_calls,
                                  pr.verdict, pr.ts, pr.transcript)
          IN procs' =
               [procs EXCEPT
                  ![p] = create_or_update_call_enter(
                           pr, rec, "screen", "act", clock)]
  /\ UNCHANGED <<store, active_calls, clock, nsig, restarts, hist, ids, app, overlaps,
                 classifier, analysis>>

\* a faulty decision, for comparison: every call is terminated
ActionFor_AlwaysTerminate(v) == "terminate"

\* Step 2 of wisp_screen: the executor operation a verdict selects
ActionFor(v) == IF v = "SCAM" THEN "terminate" ELSE "transfer"

\* warm_transfer_retell_call before its retry loop: a call the registry
\* knows as ended or terminated is not transferred; a call the registry
\* does not know is looked up in the store.  The older application goes
\* straight to its retry loop, and so does the custom method
\* (use_custom: invoke_custom_transfer_call).  RETELL_API_KEY is configured.
TransferEntry(pr, reg, a) ==
  IF a = "root" THEN [pr EXCEPT !.pc = "x_post", !.posts = 1]
  ELSE IF pr.use_custom THEN [pr EXCEPT !.pc = "c_post", !.posts = 1]
  ELSE IF pr.cid \in DOMAIN reg
    THEN IF Get(reg[pr.cid], "status") \in {"ended", "terminated"}
           THEN Finish([pr EXCEPT !.outcome = "Skipped"])
           ELSE [pr EXCEPT !.pc = "x_post", !.posts = 1]
    ELSE [pr EXCEPT !.pc = "x_pre"]

\* wisp_screen after the verdict write, up to the executor's first await
Dispatch(pr, reg) ==
  LET q == [pr EXCEPT !.data = EmptyDict, !.now = NoTime, !.wkind = "none",
                      !.ret = "none", !.ts = NoTime]
  IN IF ActionFor(pr.verdict) = "terminate"
       THEN [q EXCEPT !.termCalls = @ + 1, !.pc = "t_post", !.posts = 1]
       ELSE TransferEntry([q EXCEPT !.transCalls = @ + 1], reg, app)

\* a faulty store write, for comparison: a failed write reaches the caller
\* as an exception and the request is answered with an error
create_or_update_call_return_Raises(pr, ok, reg) ==
  IF ~ok THEN [Finish(pr) EXCEPT !.response = "error"]
  ELSE IF pr.ret = "act" THEN Dispatch(pr, reg) ELSE Finish(pr)

\* create_or_update_call returns True or False and never raises; no caller
\* looks at the value.
create_or_update_call_return(pr, ok, reg) ==
  IF pr.ret = "act" THEN Dispatch(pr, reg) ELSE Finish(pr)

\* a faulty write, for comparison: a failed write leaves a torn row behind,
\* the key and the timestamps without the other columns
create_or_update_call_write_Torn(p) ==
  /\ procs[p].pc = "cu_write"
  /\ \E fail \in BOOLEAN :
       /\ fail => faults < MaxFaults
       /\ faults' = IF fail THEN faults + 1 ELSE faults
       /\ store' =
            IF fail
              THEN InsertOrReplace(
                     store,
                     [NullRow EXCEPT
                        !.call_id = Get(procs[p].data, "call_id"),
                        !.created_at = Get(procs[p].data, "created_at"),
                        !.updated_at = Get(procs[p].data, "updated_at")])
              ELSE InsertOrReplace(store, Params(procs[p].data))
       /\ procs' =
            [procs EXCEPT
               ![p] = create_or_update_call_return(@, ~fail, active_calls)]
  /\ UNCHANGED <<active_calls, clock, nsig, restarts, hist, ids, app, overlaps,
                 classifier, analysis>>

\* db.execute(INSERT OR REPLACE ...); db.commit(): the whole row or nothing
create_or_update_call_write(p) ==
  /\ procs[p].pc = "cu_write"
  /\ \E fail \in BOOLEAN :
       /\ fail => faults < MaxFaults
       /\ faults' = IF fail THEN faults + 1 ELSE faults
       /\ store' = IF fail THEN store
                   ELSE InsertOrReplace(store, Params(procs[p].data))
       /\ procs' =
            [procs EXCEPT
               ![p] = create_or_update_call_return(@, ~fail, active_calls)]
  /\ UNCHANGED <<active_calls, clock, nsig, restarts, hist, ids, app, overlaps,
                 classifier, analysis>>

\* ------------------------------------------------- Outbound executor
\* the retry loops' test before sleeping and trying again
\* a faulty retry test, for comparison: one attempt too many
MoreAttempts_OneMore(attempt, retry_count) == attempt < retry_count

MoreAttempts(attempt, retry_count) == attempt < retry_count - 1

Retryable(r) == r \in {"500", "neterr"}

\* a faulty record, for comparison: the registry entry is not merged in
TerminatedRecord_EventOnly(c, terminated_at, reg) ==
  [keys |-> {"call_id", "status", "terminated_at"},
   val |-> [NullRow EXCEPT !.call_id = c, !.status = "terminated",
                           !.terminated_at = terminated_at]]

\* the call_record of a successful terminate
TerminatedRecord(c, terminated_at, reg) ==
  LET r0 == [keys |-> {"call_id", "status", "terminated_at"},
             val |-> [NullRow EXCEPT !.call_id = c, !.status = "terminated",
                                     !.terminated_at = terminated_at]]
  IN IF c \in DOMAIN reg THEN Update(r0, reg[c]) ELSE r0

\* accounting of one remote answer
Answered(pr, r) ==
  [pr EXCEPT !.oks = IF r = "200" THEN @ + 1 ELSE @,
             !.retryFails = IF Retryable(r) THEN @ + 1 ELSE @,
             !.otherFails = IF r \in {"404", "401", "400"} THEN @ + 1 ELSE @,
             !.notFounds = IF r = "404" THEN @ + 1 ELSE @]

\* a faulty result, for comparison: not-found is a failure of terminate too
Returned_NotFoundFails(pr) == pr.outcome = "Success"

\* the boolean an executor operation returns: True after a 200 and, from
\* terminate_retell_call, after a 404; False on every other path
Returned(pr) == pr.outcome \in {"Success", "AlreadyGone"}

\* a faulty retry, for comparison: the back-off sleep never ends
Retry_NeverWakes(pr) == [pr EXCEPT !.pc = "asleep"]

\* sleep, then the next POST
Retry(pr) == [pr EXCEPT !.attempt = @ + 1, !.posts = @ + 1]

\* a faulty terminate, for comparison: the termination is persisted
\* whatever the remote API answered
terminate_retell_call_WritesFirst(p, r) ==
  /\ procs[p].pc = "t_post"
  /\ procs' =
       [procs EXCEPT
          ![p] = create_or_update_call_enter(
                   [Answered(@, r) EXCEPT
                      !.outcome = IF r = "200" THEN "Success" ELSE "Failed"],
                   TerminatedRecord(@.cid, clock, active_calls),
                   "terminate", "done", clock)]
  /\ UNCHANGED <<store, active_calls, clock, nsig, faults, restarts, hist,
                 ids, app, overlaps, classifier, analysis>>

\* terminate_retell_call: the answer to one POST /update-call/{call_id}
terminate_retell_call(p, r) ==
  /\ procs[p].pc = "t_post"
  /\ LET pr == Answered(procs[p], r)
         c == pr.cid
     IN IF r = "200"
          THEN LET reg == IF InRegistry(c)
                            THEN [active_calls EXCEPT
                                    ![c] = Set(Set(@, "status", "terminated"),
                                               "terminated_at", clock)]
                            ELSE active_calls
               IN /\ active_calls' = reg
                  /\ procs' =
                       [procs EXCEPT
                          ![p] = create_or_update_call_enter(
                                   [pr EXCEPT !.outcome = "Success"],
                                   TerminatedRecord(c, clock, reg),
                                   "terminate", "done", clock)]
          ELSE /\ procs' =
                    [procs EXCEPT
                       ![p] = IF r = "404"
                                THEN Finish([pr EXCEPT !.outcome = "AlreadyGone"])
                              ELSE IF MoreAttempts(pr.attempt, RetryCount)
                                THEN Retry(pr)
                              ELSE Finish([pr EXCEPT !.outcome = "Failed"])]
               /\ UNCHANGED <<active_calls>>
  /\ UNCHANGED <<store, clock, nsig, faults, restarts, hist, ids, app, overlaps,
                 classifier, analysis>>

\* a faulty check, for comparison: a failed store read leaves the operation
\* as an exception
warm_transfer_retell_call_check_Raises(p) ==
  /\ procs[p].pc = "x_pre"
  /\ \E fail \in BOOLEAN :
       /\ fail => faults < MaxFaults
       /\ faults' = IF fail THEN faults + 1 ELSE faults
       /\ LET pr == procs[p]
              db_call == IF fail THEN <<>> ELSE get_call_ok(store, pr.cid)
          IN procs' =
               [procs EXCEPT
                  ![p] = IF fail
                           THEN [Finish(pr) EXCEPT !.response = "error"]
                         ELSE IF db_call # <<>>
                            /\ db_call[1].status \in {"ended", "terminated"}
                           THEN Finish([pr EXCEPT !.outcome = "Skipped"])
                           ELSE [pr EXCEPT !.pc = "x_post", !.posts = 1]]
  /\ UNCHANGED <<store, active_calls, clock, nsig, restarts, hist, ids, app, overlaps,
                 classifier, analysis>>

\* warm_transfer_retell_call, call_id not in active_calls:
\* db_call = await get_call(call_id)
warm_transfer_retell_call_check(p) ==
  /\ procs[p].pc = "x_pre"
  /\ \E fail \in BOOLEAN :
       /\ fail => faults < MaxFaults
       /\ faults' = IF fail THEN faults + 1 ELSE faults
       /\ LET pr == procs[p]
              db_call == IF fail THEN <<>> ELSE get_call_ok(store, pr.cid)
          IN procs' =
               [procs EXCEPT
                  ![p] = IF db_call # <<>>
                            /\ db_call[1].status \in {"ended", "terminated"}
                           THEN Finish([pr EXCEPT !.outcome = "Skipped"])
                           ELSE [pr EXCEPT !.pc = "x_post", !.posts = 1]]
  /\ UNCHANGED <<store, active_calls, clock, nsig, restarts, hist, ids, app, overlaps,
                 classifier, analysis>>

\* the call_record of a successful transfer
TransferRecord(c, at, reg) ==
  LET r0 == [keys |-> {"call_id", "transfer_initiated", "transfer_target",
                       "transfer_initiated_at"},
             val |-> [NullRow EXCEPT !.call_id = c, !.transfer_initiated = 1,
                                     !.transfer_target = WISP_PHONE,
                                     !.transfer_initiated_at = at]]
  IN IF c \in DOMAIN reg THEN Update(r0, reg[c]) ELSE r0

\* a faulty transfer, for comparison: the registry entry is marked before
\* the answer is looked at
warm_transfer_retell_call_MarksFirst(p, r) ==
  /\ procs[p].pc = "x_post"
  /\ LET pr == Answered(procs[p], r)
         c == pr.cid
         reg == IF InRegistry(c)
                  THEN [active_calls EXCEPT
                          ![c] = Set(Set(Set(@, "transfer_initiated", 1),
                                         "transfer_target", WISP_PHONE),
                                     "transfer_initiated_at", clock)]
                  ELSE active_calls
     IN /\ active_calls' = reg
        /\ procs' =
             [procs EXCEPT
                ![p] = IF r = "200"
                         THEN create_or_update_call_enter(
                                [pr EXCEPT !.outcome = "Success"],
                                TransferRecord(c, clock, reg),
                                "transfer", "done", clock)
                       ELSE IF r = "404"
                         THEN Finish([pr EXCEPT !.outcome = "NotFound"])
                       ELSE IF r \in {"401", "400"} /\ app = "backend"
                         THEN Finish([pr EXCEPT !.outcome = "Failed"])
                       ELSE IF MoreAttempts(pr.attempt, RetryCount)
                         THEN Retry(pr)
                       ELSE Finish([pr EXCEPT !.outcome = "Failed"])]
  /\ UNCHANGED <<store, clock, nsig, faults, restarts, hist, ids, app, overlaps,
                 classifier, analysis>>

\* warm_transfer_retell_call: the answer to one POST /update-call/{call_id}
warm_transfer_retell_call(p, r) ==
  /\ procs[p].pc = "x_post"
  /\ LET pr == Answered(procs[p], r)
         c == pr.cid
     IN IF r = "200"
          THEN LET reg == IF InRegistry(c)
                            THEN [active_calls EXCEPT
                                    ![c] = Set(Set(Set(@,
                                                 "transfer_initiated", 1),
                                               "transfer_target", WISP_PHONE),
                                            "transfer_initiated_at", clock)]
                            ELSE active_calls
               IN /\ active_calls' = reg
                  /\ procs' =
                       [procs EXCEPT
                          ![p] = create_or_update_call_enter(
                                   [pr EXCEPT !.outcome = "Success"],
                                   TransferRecord(c, clock, reg),
                                   "transfer", "done", clock)]
          ELSE /\ procs' =
                    [procs EXCEPT
                       ![p] = IF r = "404"
                                THEN Finish([pr EXCEPT !.outcome = "NotFound"])
                              ELSE IF r \in {"401", "400"} /\ app = "backend"
                                THEN Finish([pr EXCEPT !.outcome = "Failed"])
                              ELSE IF MoreAttempts(pr.attempt, RetryCount)
                                THEN Retry(pr)
                              ELSE Finish([pr EXCEPT !.outcome = "Failed"])]
               /\ UNCHANGED <<active_calls>>
  /\ UNCHANGED <<store, clock, nsig, faults, restarts, hist, ids, app, overlaps,
                 classifier, analysis>>

\* the call_record of a successful custom transfer (its transfer_method
\* key is no column of the table and never reaches the store)
CustomTransferRecord(c, at, reg) == TransferRecord(c, at, reg)

\* invoke_custom_transfer_call: the answer to one POST
\* /update-call/{call_id}; only a 404 ends the loop early
invoke_custom_transfer_call(p, r) ==
  /\ procs[p].pc = "c_post"
  /\ LET pr == Answered(procs[p], r)
         c == pr.cid
     IN IF r = "200"
          THEN LET reg == IF InRegistry(c)
                            THEN [active_calls EXCEPT
                                    ![c] = Set(Set(Set(@,
                                                 "transfer_initiated", 1),
                                               "transfer_target", WISP_PHONE),
                                            "transfer_initiated_at", clock)]
                            ELSE active_calls
               IN /\ active_calls' = reg
                  /\ procs' =
                       [procs EXCEPT
                          ![p] = create_or_update_call_enter(
                                   [pr EXCEPT !.outcome = "Success"],
                                   CustomTransferRecord(c, clock, reg),
                                   "transfer", "done", clock)]
          ELSE /\ procs' =
                    [procs EXCEPT
                       ![p] = IF r = "404"
                                THEN Finish([pr EXCEPT !.outcome = "NotFound"])
                              ELSE IF MoreAttempts(pr.attempt, RetryCount)
                                THEN Retry(pr)
                              ELSE Finish([pr EXCEPT !.outcome = "Failed"])]
               /\ UNCHANGED <<active_calls>>
  /\ UNCHANGED <<store, clock, nsig, faults, restarts, hist, ids, app, overlaps,
                 classifier, analysis>>

\* -------------------------------------------------------- request bodies
\* "not v": None and the empty string
Falsy(v) == v \in {NULL, ""}

\* the values a request may carry for call_id and for transcript
CallIdValues == ids \cup {NULL, ""}
TranscriptValues == Transcripts \cup {NULL, ""}

\* body["args"]: absent, a dict, or anything else
NoArgs == [kind |-> "absent", call_id |-> NULL, transcript |-> NULL]

ArgsValues ==
  {NoArgs, [NoArgs EXCEPT !.kind = "other"]}
    \cup {[kind |-> "dict", call_id |-> c, transcript |-> tr] :
            c \in CallIdValues, tr \in TranscriptValues}

\* direct format
Flat(c, tr) ==
  [shape |-> "dict", call_id |-> c, transcript |-> tr, args |-> NoArgs]

\* Retell custom tool format
Nested(c, tr) ==
  [shape |-> "dict", call_id |-> NULL, transcript |-> NULL,
   args |-> [kind |-> "dict", call_id |-> c, transcript |-> tr]]

\* the bodies of POST /wisp-screen: a JSON object in either format, a
\* direct one whose "args" is no object, JSON that is no object, and bytes
\* that are no JSON
ScreenBodies ==
  {Flat(c, tr) : c \in CallIdValues, tr \in TranscriptValues}
    \cup {Nested(c, tr) : c \in CallIdValues, tr \in TranscriptValues}
    \cup {[Flat(c, tr) EXCEPT !.args.kind = "other"] :
            c \in CallIdValues, tr \in TranscriptValues}
    \cup {[Flat(NULL, NULL) EXCEPT !.shape = sh] : sh \in {"other", "invalid"}}

\* a faulty extraction, for comparison: only the direct format is read
wisp_screen_extract_FlatOnly(body) ==
  IF body.shape = "dict"
    THEN [call_id |-> body.call_id, transcript |-> body.transcript]
    ELSE [call_id |-> NULL, transcript |-> NULL]

\* wisp_screen: call_id and transcript from either format
wisp_screen_extract(body) ==
  IF body.shape = "dict" /\ body.args.kind = "dict"
    THEN [call_id |-> body.args.call_id, transcript |-> body.args.transcript]
  ELSE IF body.shape = "dict"
    THEN [call_id |-> body.call_id, transcript |-> body.transcript]
  ELSE [call_id |-> NULL, transcript |-> NULL]

\* raise HTTPException(status_code=code): the handler ends before it has
\* touched anything
Reject(p, kind, code) ==
  /\ CanStart(p)
  /\ procs' = [procs EXCEPT
                 ![p] = [IdleProc EXCEPT !.kind = kind, !.pc = "done",
                                         !.response = code]]
  /\ UNCHANGED <<store, active_calls, clock, nsig, faults, restarts, hist,
                 ids, app, overlaps, classifier, analysis>>

\* POST /wisp-screen: parse, extract, validate, then the handler proper
wisp_screen_request(p, body, v) ==
  LET a == wisp_screen_extract(body)
  IN IF body.shape = "invalid" THEN Reject(p, "screen_rejected", "400")
     ELSE IF Falsy(a.call_id) \/ Falsy(a.transcript)
       THEN Reject(p, "screen_rejected", "422")
     ELSE wisp_screen(p, a.call_id, a.transcript, v)

\* the requests of POST /api/transfer-call: the JSON body (an object, with
\* call_id and args as above, or some other JSON value; a body that is no
\* JSON counts as {}), the query parameter call_id, and use_custom.
\* target_number and whisper_message are left to their defaults.
TransferRequests ==
  [shape : {"dict", "other"}, call_id : CallIdValues,
   args : {a \in ArgsValues : a.transcript = NULL},
   query_call_id : ids \cup {NULL}, use_custom : BOOLEAN]

\* transfer_call_endpoint: body.get("call_id") or
\* body.get("args", {}).get("call_id") or query_params.get("call_id");
\* "crash" is the AttributeError of .get on a value that is no dict
transfer_call_extract(req) ==
  IF req.shape # "dict" \/ req.args.kind = "other" THEN "crash"
  ELSE IF ~Falsy(req.call_id) THEN req.call_id
  ELSE IF req.args.kind = "dict" /\ ~Falsy(req.args.call_id)
    THEN req.args.call_id
  ELSE IF ~Falsy(req.query_call_id) THEN req.query_call_id
  ELSE NULL

\* the call_id a transfer request carries, wherever it carries it
RequestCallId(req) ==
  IF req.shape = "dict" /\ ~Falsy(req.call_id) THEN req.call_id
  ELSE IF req.shape = "dict" /\ req.args.kind = "dict"
            /\ ~Falsy(req.args.call_id)
    THEN req.args.call_id
  ELSE req.query_call_id

\* call_info as first built: "in_active_calls" and "active_call_status"
RegistryCallInfo(reg, c) ==
  [NoCallInfo EXCEPT
     !.in_active_calls = c \in DOMAIN reg,
     !.active_call_status =
        IF c \in DOMAIN reg THEN Get(reg[c], "status") ELSE NULL]

\* call_info after db_call = await get_call(call_id): "in_database" and,
\* when there is a row, "db_status"
StoreCallInfo(ci, db_call) ==
  [ci EXCEPT !.in_database = db_call # <<>>,
             !.db_status = IF db_call # <<>> THEN db_call[1].status ELSE NULL]

\* GET /api/calls/{call_id}: the row, or 404 (<<>>)
get_call_endpoint(rows, c) == get_call_ok(rows, c)

\* GET /api/calls: SELECT * FROM calls with the optional filters (NULL is
\* no filter)
get_calls_endpoint(rows, status, verdict) ==
  {r \in rows : /\ (status # NULL => r.status = status)
                /\ (verdict # NULL => r.screening_verdict = verdict)}

\* GET /api/calls/active: database.get_active_calls
get_active_calls_endpoint(rows) ==
  {r \in rows : \/ r.status = "active"
                \/ (r.status = NULL /\ r.ended_at = NoTime)}

\* POST /api/transfer-call up to db_call = await get_call(call_id).  A
\* request turned away is "transfer_rejected" when it carried no call_id
\* and "transfer_crashed" when it carried one.
transfer_call_endpoint(p, req) ==
  LET c == transfer_call_extract(req)
  IN /\ app = "backend"
     /\ IF c = "crash"
          THEN Reject(p, IF Falsy(RequestCallId(req))
                           THEN "transfer_rejected"
                           ELSE "transfer_crashed", "500")
        ELSE IF Falsy(c) THEN Reject(p, "transfer_rejected", "422")
        ELSE /\ CanStart(p)
             /\ procs' = Started(p, c, [NewProc(p, "transfer_req", c) EXCEPT
                                          !.use_custom = req.use_custom,
                                          !.call_info =
                                             RegistryCallInfo(active_calls, c),
                                          !.pc = "te_get"])
             /\ clock' = clock + 1
             /\ nsig' = nsig + Cost
             /\ overlaps' = IF Busy THEN overlaps + 1 ELSE overlaps
             /\ UNCHANGED <<store, active_calls, faults, restarts, hist, ids,
                            app, classifier, analysis>>

\* transfer_call_endpoint: the store read fills call_info only; then the
\* transfer by the method asked for
transfer_call_endpoint_get(p) ==
  /\ procs[p].pc = "te_get"
  /\ \E fail \in BOOLEAN :
       /\ fail => faults < MaxFaults
       /\ faults' = IF fail THEN faults + 1 ELSE faults
       /\ LET db_call == IF fail THEN <<>>
                         ELSE get_call_ok(store, procs[p].cid)
          IN procs' =
               [procs EXCEPT
                  ![p] = TransferEntry(
                           [@ EXCEPT !.transCalls = @ + 1,
                                     !.call_info = StoreCallInfo(@, db_call)],
                           active_calls, app)]
  /\ UNCHANGED <<store, active_calls, clock, nsig, restarts, hist, ids, app,
                 overlaps, classifier, analysis>>

\* ------------------------------------------------- webhook signature
\* The X-Retell-Signature header: absent, one bare value, or comma-separated
\* k=v pairs with or without a pair d=...; a digest is "good" when it equals
\* the hex HMAC-SHA256 of the body under RETELL_WEBHOOK_SECRET, "bad" when
\* it does not, "" when it is empty.
SignatureHeaders ==
  {[form |-> "absent", d |-> NULL]}
    \cup [form : {"bare"}, d : {"good", "bad"}]
    \cup [form : {"pairs"}, d : {"good", "bad", "", NULL}]

\* verify_retell_webhook(payload, signature); secret tells whether
\* RETELL_WEBHOOK_SECRET is configured
verify_retell_webhook(secret, sig) ==
  IF ~secret THEN TRUE
  ELSE IF sig.form = "pairs" /\ sig.d \in {"", NULL} THEN FALSE
  ELSE sig.d = "good"

\* if RETELL_WEBHOOK_SECRET and x_retell_signature: whether the signature
\* is looked at at all
SignatureChecked(secret, sig) == secret /\ sig.form # "absent"

\* a faulty endpoint, for comparison: with a secret configured a webhook
\* without the header is not taken
retell_webhook_NeedsHeader(p, secret, sig, c) ==
  /\ ~(secret /\ sig.form = "absent")
  /\ \/ Webhook_call_started(p, c)
     \/ Webhook_call_ended(p, c)
     \/ Webhook_call_transferred(p, c)

\* POST /retell-webhook.  The signature is verified when a secret is
\* configured and the header is present; a failed verification is logged
\* and the request goes on (the raise is commented out), so the handling
\* of the event does not depend on it.
retell_webhook(p, secret, sig, c) ==
  LET invalid == SignatureChecked(secret, sig)
                   /\ ~verify_retell_webhook(secret, sig)
  IN /\ invalid \in BOOLEAN
     /\ \/ Webhook_call_started(p, c)
        \/ Webhook_call_ended(p, c)
        \/ Webhook_call_transferred(p, c)

\* ------------------------------------------- screening.py: the classifier
\* What ollama gives back, after response_text.strip(): lines of words.  A
\* line that starts with VERDICT: carries a value, one that starts with
\* SUMMARY: carries the summary's words, any other line carries words.  Or
\* there is no text: the library is missing, the server does not answer, or
\* generate raises.
SummaryWords == {"a", "b"}

WordSeqs == UNION {[1..n -> SummaryWords] : n \in 0..MaxWords}

Lines ==
  [tag : {"VERDICT:"}, value : {"SCAM", "SAFE", "maybe"}, words : {<<>>}]
    \cup [tag : {"SUMMARY:", "none"}, value : {NULL}, words : WordSeqs]

ClassifierOutputs ==
  [kind : {"text"}, text : UNION {[1..n -> Lines] : n \in 0..MaxLines}]
    \cup [kind : {"no_ollama", "no_server", "exception"}, text : {<<>>}]

NoOutput == [kind |-> "none", text |-> <<>>]
NoAnalysis == [verdict |-> NULL, summary |-> <<>>]

\* s[:n] on a list
Take(s, n) == SubSeq(s, 1, IF n < Len(s) THEN n ELSE Len(s))

\* line.split()
LineWords(l) ==
  IF l.tag = "VERDICT:" THEN <<"VERDICT:", l.value>>
  ELSE IF l.tag = "SUMMARY:" THEN <<"SUMMARY:">> \o l.words
  ELSE l.words

\* response_text.split()
RECURSIVE TextWords(_)
TextWords(text) ==
  IF text = <<>> THEN <<>>
  ELSE LineWords(Head(text)) \o TextWords(Tail(text))

\* the lines with a tag; the loop keeps what the last of them gives
Tagged(text, tag) == {i \in 1..Len(text) : text[i].tag = tag}

Last(S) == CHOOSE i \in S : \A j \in S : j <= i

\* verdict after the parsing loop; NULL is None
ParsedVerdict(text) ==
  IF Tagged(text, "VERDICT:") = {} THEN NULL
  ELSE IF text[Last(Tagged(text, "VERDICT:"))].value = "SCAM" THEN "SCAM"
  ELSE "SAFE"

\* summary after the parsing loop, as words; <<>> is None or ""
ParsedSummary(text) ==
  IF Tagged(text, "SUMMARY:") = {} THEN <<>>
  ELSE text[Last(Tagged(text, "SUMMARY:"))].words

\* if not verdict or not summary: the fallback parsing
Fallback(text) == ParsedVerdict(text) = NULL \/ ParsedSummary(text) = <<>>

\* summary before it is normalized.  In the fallback a text of fewer than
\* 5 words is cut at 50 characters: cut is the number of words that begin
\* before the cut (the last of them may be shortened by it).
RawSummary(text, cut) ==
  IF Fallback(text)
    THEN IF Len(TextWords(text)) >= 5 THEN Take(TextWords(text), 5)
         ELSE Take(TextWords(text), cut)
    ELSE ParsedSummary(text)

\* a faulty normalization, for comparison: truncates but does not pad
Normalize_NoPad(summary_words) ==
  IF Len(summary_words) > 5 THEN Take(summary_words, 5) ELSE summary_words

\* "Ensure summary is exactly 5 words"
Normalize(summary_words) ==
  IF Len(summary_words) > 5 THEN Take(summary_words, 5)
  ELSE IF Len(summary_words) < 5
    THEN summary_words \o [i \in 1..(5 - Len(summary_words)) |-> "call"]
  ELSE summary_words

UnableToAnalyze == <<"Unable", "to", "analyze", "call", "transcript">>

\* a faulty analysis, for comparison: a classifier failure counts as SCAM
AnalyzeResult_FailClosed(out, cut) ==
  IF out.kind # "text"
    THEN [verdict |-> "SCAM", summary |-> UnableToAnalyze]
    ELSE [verdict |->
            IF ~Fallback(out.text) THEN ParsedVerdict(out.text)
            ELSE IF \E i \in 1..Len(out.text) : out.text[i].value = "SCAM"
              THEN "SCAM"
            ELSE "SAFE",
          summary |-> Normalize(RawSummary(out.text, cut))]

\* the (verdict, summary) analyze_with_gemini returns
AnalyzeResult(out, cut) ==
  IF out.kind # "text"
    THEN [verdict |-> "SAFE", summary |-> UnableToAnalyze]
    ELSE [verdict |->
            IF ~Fallback(out.text) THEN ParsedVerdict(out.text)
            ELSE IF \E i \in 1..Len(out.text) : out.text[i].value = "SCAM"
              THEN "SCAM"
            ELSE "SAFE",
          summary |-> Normalize(RawSummary(out.text, cut))]

analyze_with_gemini ==
  /\ classifier # NoOutput
  /\ analysis = NoAnalysis
  /\ \E cut \in 1..4 : analysis' = AnalyzeResult(classifier, cut)
  /\ UNCHANGED <<store, active_calls, clock, procs, nsig, faults, restarts,
                 overlaps, hist, ids, app, classifier>>

\* ------------------------------------------------------------ lifecycle
\* the handler's response is sent
Return(p) ==
  /\ procs[p].pc = "done"
  /\ hist' = IF procs[p].kind \in {"screen_rejected", "transfer_rejected",
                                   "transfer_crashed"}
               THEN hist
               ELSE Append(hist,
                           <<procs[p].kind, procs[p].cid, procs[p].verdict>>)
  /\ procs' = [procs EXCEPT ![p] = IdleProc]
  /\ UNCHANGED <<store, active_calls, clock, nsig, faults, restarts, ids, app,
                 overlaps, classifier, analysis>>

EmptyRegistry == [k \in {} |-> EmptyDict]

\* the process restarts: active_calls = {} and the handlers in flight die
Restart ==
  /\ restarts < MaxRestarts
  /\ restarts' = restarts + 1
  /\ active_calls' = EmptyRegistry
  /\ procs' = [q \in Procs |-> IdleProc]
  /\ hist' = Append(hist, <<"restart", NULL, NULL>>)
  /\ UNCHANGED <<store, clock, nsig, faults, ids, app, overlaps,
                 classifier, analysis>>

Init ==
  /\ store = {}
  /\ active_calls = EmptyRegistry
  /\ clock = 0
  /\ procs = [q \in Procs |-> IdleProc]
  /\ nsig = 0
  /\ faults = 0
  /\ restarts = 0
  /\ overlaps = 0
  /\ hist = <<>>
  /\ ids = {"X"}
  /\ app \in Apps
  /\ classifier = NoOutput
  /\ analysis = NoAnalysis

Step(p) ==
  \/ create_or_update_call_get(p)
  \/ create_or_update_call_connect(p)
  \/ create_or_update_call_write(p)
  \/ Webhook_call_ended_get(p)
  \/ wisp_screen_get(p)
  \/ \E r \in Responses : terminate_retell_call(p, r)
  \/ warm_transfer_retell_call_check(p)
  \/ \E r \in Responses : warm_transfer_retell_call(p, r)
  \/ \E r \in Responses : invoke_custom_transfer_call(p, r)
  \/ transfer_call_endpoint_get(p)
  \/ Return(p)

\* a request arrives (each of them needs a free handler slot)
\* verdict, summary = await analyze_with_gemini(transcript): the verdict of
\* a screening request is the one the analysis returned; where the
\* classifier is left open it is either one
AnalysisVerdicts ==
  IF analysis = NoAnalysis THEN Verdict ELSE {analysis.verdict}

Arrive(p) ==
  /\ CanStart(p)
  /\ \/ \E c \in ids, secret \in BOOLEAN, sig \in SignatureHeaders :
          retell_webhook(p, secret, sig, c)
     \/ \E body \in ScreenBodies, v \in AnalysisVerdicts :
          wisp_screen_request(p, body, v)
     \/ \E req \in TransferRequests : transfer_call_endpoint(p, req)

\* handlers interleave at their awaits
Next ==
  \/ \E p \in Procs : Arrive(p)
  \/ \E p \in Procs : Step(p)
  \/ Restart

Spec == Init /\ [][Next]_vars

\* one handler at a time: a request arrives only when none is in flight
NextSeq ==
  \/ \E p \in Procs : AllIdle /\ Arrive(p)
  \/ \E p \in Procs : Step(p)
  \/ Restart

SpecSeq == Init /\ [][NextSeq]_vars

\* as SpecSeq, with webhooks whose payload has no call.call_id among the
\* arrivals: call_data.get("call_id") is None
InitAnyPayload ==
  /\ store = {}
  /\ active_calls = EmptyRegistry
  /\ clock = 0
  /\ procs = [q \in Procs |-> IdleProc]
  /\ nsig = 0
  /\ faults = 0
  /\ restarts = 0
  /\ overlaps = 0
  /\ hist = <<>>
  /\ ids = {"X", NULL}
  /\ app \in Apps
  /\ classifier = NoOutput
  /\ analysis = NoAnalysis

SpecAnyPayload == InitAnyPayload /\ [][NextSeq]_vars

\* backend/main.py with requests for two calls: handlers interleave at
\* their awaits and store operations may fail; the process is not restarted
InitTwoCalls ==
  /\ store = {}
  /\ active_calls = EmptyRegistry
  /\ clock = 0
  /\ procs = [q \in Procs |-> IdleProc]
  /\ nsig = 0
  /\ faults = 0
  /\ restarts = 0
  /\ overlaps = 0
  /\ hist = <<>>
  /\ ids = CallIds
  /\ app = "backend"
  /\ classifier = NoOutput
  /\ analysis = NoAnalysis

NextTwoCalls ==
  \/ \E p \in Procs : Arrive(p)
  \/ \E p \in Procs : Step(p)

SpecTwoCalls == InitTwoCalls /\ [][NextTwoCalls]_vars

\* analyze_with_gemini on its own, for every classifier output
InitAnalyze ==
  /\ store = {}
  /\ active_calls = EmptyRegistry
  /\ clock = 0
  /\ procs = [q \in Procs |-> IdleProc]
  /\ nsig = 0
  /\ faults = 0
  /\ restarts = 0
  /\ overlaps = 0
  /\ hist = <<>>
  /\ ids = {"X"}
  /\ app = "backend"
  /\ classifier \in ClassifierOutputs
  /\ analysis = NoAnalysis

NextAnalyze == analyze_with_gemini

SpecAnalyze == InitAnalyze /\ [][NextAnalyze]_vars

\* backend/main.py with the classifier behind it: the classifier fails, or
\* answers one VERDICT: line, and the requests that follow carry the
\* verdict analyze_with_gemini made of it
FailOpenOutputs ==
  {o \in ClassifierOutputs :
     \/ o.kind # "text"
     \/ Len(o.text) = 1 /\ o.text[1].tag = "VERDICT:"}

InitFailOpen ==
  /\ store = {}
  /\ active_calls = EmptyRegistry
  /\ clock = 0
  /\ procs = [q \in Procs |-> IdleProc]
  /\ nsig = 0
  /\ faults = 0
  /\ restarts = 0
  /\ overlaps = 0
  /\ hist = <<>>
  /\ ids = {"X"}
  /\ app = "backend"
  /\ classifier \in FailOpenOutputs
  /\ analysis = NoAnalysis

NextFailOpen ==
  \/ analyze_with_gemini
  \/ \E p \in Procs : AllIdle /\ analysis # NoAnalysis /\ Arrive(p)
  \/ \E p \in Procs : Step(p)

SpecFailOpen == InitFailOpen /\ [][NextFailOpen]_vars

\* requests handled one after the other by a process that stays up; every
\* await returns (the store answers or raises, httpx answers or times out
\* after 10 s, asyncio.sleep ends), so the event loop runs each handler's
\* next step
InitLive ==
  /\ store = {}
  /\ active_calls = EmptyRegistry
  /\ clock = 0
  /\ procs = [q \in Procs |-> IdleProc]
  /\ nsig = 0
  /\ faults = 0
  /\ restarts = 0
  /\ overlaps = 0
  /\ hist = <<>>
  /\ ids = {"X"}
  /\ app = "backend"
  /\ classifier = NoOutput
  /\ analysis = NoAnalysis

NextLive ==
  \/ \E p \in Procs : AllIdle /\ Arrive(p)
  \/ \E p \in Procs : Step(p)

SpecLive ==
  InitLive /\ [][NextLive]_vars /\ \A p \in Procs : WF_vars(Step(p))


\* ================================================================ claims
\* C1 to C6 are stated for backend/main.py, whose handlers read the store
\* before they write; C7 to C10 for both applications.
RowOf(rows, c) == {r \in rows : r.call_id = c}

\* handler p leaves create_or_update_call's write in this step
WriteBy(p) == procs[p].pc = "cu_write" /\ procs'[p].pc # "cu_write"

\* the columns each signal sets: the keys of its call_record literal,
\* call_id aside
SignalSets(wkind) ==
  CASE wkind = "call_started" ->
         {"from_number", "to_number", "started_at", "status"}
    [] wkind = "call_ended" -> {"status", "ended_at"}
    [] wkind = "call_transferred" -> {"transferred_to", "transferred_at"}
    [] wkind = "screen" ->
         {"transcript", "screening_verdict", "screening_summary",
          "screened_at"}
    [] wkind = "terminate" -> {"status", "terminated_at"}
    [] wkind = "transfer" ->
         {"transfer_initiated", "transfer_target", "transfer_initiated_at"}
    [] OTHER -> {}

\* C1: a store record whose screening_verdict is non-null keeps a non-null
\* screening_verdict, screening_summary and screened_at across every store
\* write that is not the verdict write of a screening request (stated for
\* the runs in which no store operation failed).
C1_VerdictPreserved ==
  [][\A p \in Procs :
       app = "backend" /\ faults' = 0 /\ WriteBy(p)
         /\ procs[p].wkind # "screen" =>
         \A r \in RowOf(store, procs[p].cid) :
           r.screening_verdict # NULL =>
             \A r2 \in RowOf(store', procs[p].cid) :
               /\ r2.screening_verdict # NULL
               /\ r2.screening_summary # NULL
               /\ r2.screened_at # NoTime]_vars

\* C2: a store write for a signal leaves every column the signal does not
\* set (updated_at aside, which every write sets) as it was in the record
\* (stated for the runs in which no store operation failed).
C2_MergeNotReplace ==
  [][\A p \in Procs :
       app = "backend" /\ faults' = 0 /\ WriteBy(p) =>
         \A r \in RowOf(store, procs[p].cid) :
           \A r2 \in RowOf(store', procs[p].cid) :
             \A f \in Columns \ (SignalSets(procs[p].wkind) \cup {"updated_at"}) :
               r2[f] = r[f]]_vars

\* C3: once the store has a record for a call_id, no step changes its
\* created_at (stated for the runs in which no store operation failed).
C3_CreatedAtWriteOnce ==
  [][\A r \in store :
       app = "backend" /\ faults' = 0 =>
       \A r2 \in RowOf(store', r.call_id) :
         r2.created_at = r.created_at]_vars

\* C4: the updated_at stored for a call_id never decreases from one store
\* state to the next (stated for the runs in which no store operation
\* failed).
C4_UpdatedAtMonotone ==
  [][\A r \in store :
       app = "backend" /\ faults' = 0 =>
       \A r2 \in RowOf(store', r.call_id) :
         r2.updated_at >= r.updated_at]_vars

\* C5: when a screening request and a call_ended webhook for one call_id
\* overlap and both complete (no store failure, no restart, nothing else
\* arrived, the action wrote no state of its own), the store record holds
\* what either serial order leaves: the verdict of the one and
\* status=ended, ended_at of the other.
C5_NoLostUpdate ==
  \A p, q \in Procs :
    ( /\ procs[p].kind = "screen" /\ procs[p].pc = "done"
      /\ procs[q].kind = "call_ended" /\ procs[q].pc = "done"
      /\ procs[p].cid = procs[q].cid
      /\ procs[p].overlapped /\ procs[q].overlapped
      /\ procs[p].outcome # "Success"
      /\ app = "backend" /\ faults = 0 /\ restarts = 0 /\ hist = <<>> )
    => \E r \in RowOf(store, procs[p].cid) :
         /\ r.screening_verdict = procs[p].verdict
         /\ r.status = "ended"
         /\ r.ended_at # NoTime


\* entries of hist
HStarted == <<"call_started", "X", NULL>>
HEnded == <<"call_ended", "X", NULL>>
HScam == <<"screen", "X", "SCAM">>
HRestart == <<"restart", NULL, NULL>>

\* a SCAM screening request and a call_ended webhook, one after the other
\* in either order, with a registry entry (call_started first) or without
\* (nothing first, or a restart after call_started)
ScamEndedRuns ==
  {pre \o run : pre \in {<<>>, <<HStarted>>, <<HStarted, HRestart>>},
                run \in {<<HScam, HEnded>>, <<HEnded, HScam>>}}

\* C6: after a SCAM screening request and a call_ended webhook for one
\* call_id, processed one after the other in either order, with or without
\* a registry entry and whatever the terminate action did, the store
\* record has screening_verdict=SCAM and status=ended (no store operation
\* having failed).
C6_VerdictAndEnded ==
  (app = "backend" /\ AllIdle /\ faults = 0 /\ overlaps = 0
     /\ hist \in ScamEndedRuns)
    => \E r \in RowOf(store, "X") :
         r.screening_verdict = "SCAM" /\ r.status = "ended"

\* C7: call_started, then a screening request yielding SCAM, then
\* call_ended, for one call_id, with no restart (and no store operation
\* failing): the store record has status=ended, screening_verdict=SCAM,
\* started_at and ended_at set.
C7_EndToEnd ==
  (AllIdle /\ faults = 0 /\ overlaps = 0
     /\ hist = <<HStarted, HScam, HEnded>>)
    => \E r \in RowOf(store, "X") :
         /\ r.status = "ended"
         /\ r.screening_verdict = "SCAM"
         /\ r.started_at # NoTime
         /\ r.ended_at # NoTime

C7_Witness ==
  /\ AllIdle /\ faults = 0 /\ overlaps = 0
  /\ hist = <<HStarted, HScam, HEnded>>
  /\ \E r \in RowOf(store, "X") : r.terminated_at # NoTime

\* C8: a screening request invokes exactly one executor operation, once:
\* terminate for SCAM, transfer for SAFE; a webhook handler invokes none.
C8_ActionDecision ==
  \A p \in Procs :
    LET pr == procs[p] IN
    /\ pr.kind \in {"call_started", "call_ended", "call_transferred"} =>
         pr.termCalls = 0 /\ pr.transCalls = 0
    /\ pr.termCalls + pr.transCalls <= 1
    /\ pr.kind = "screen" /\ pr.pc = "done" =>
         /\ pr.termCalls = (IF pr.verdict = "SCAM" THEN 1 ELSE 0)
         /\ pr.transCalls = (IF pr.verdict = "SAFE" THEN 1 ELSE 0)

C8_Witness ==
  \E p \in Procs :
    /\ procs[p].kind = "screen" /\ procs[p].pc = "done"
    /\ procs[p].verdict = "SAFE" /\ procs[p].transCalls = 1
    /\ procs[p].termCalls = 0

\* C9: an accepted screening request ends by returning the classifier's
\* verdict, whatever the store operations and the action did.
C9_VerdictReturned ==
  \A p \in Procs :
    procs[p].kind = "screen" /\ ~InFlight(p) =>
      procs[p].response = procs[p].verdict /\ procs[p].verdict \in Verdict

C9_Witness ==
  \E p \in Procs :
    /\ procs[p].kind = "screen" /\ procs[p].pc = "done"
    /\ procs[p].response = "SCAM"
    /\ procs[p].outcome = "Failed"
    /\ faults > 0
    /\ store = {}

ExecutorPosting(pr) == pr.pc \in {"t_post", "x_post", "c_post"}

\* C10: the executor makes at most RetryCount attempts and none after a
\* success; when every failure was retryable (5xx, network error), a run
\* that succeeds made one attempt more than it had failures and reports
\* success, and a run that never succeeds made RetryCount attempts and
\* reports failure.
C10_BoundedRetry ==
  \A p \in Procs :
    LET pr == procs[p] IN
    /\ pr.posts <= RetryCount
    /\ pr.oks <= 1
    /\ pr.oks = 1 => ~ExecutorPosting(pr)
    /\ pr.posts = pr.oks + pr.retryFails + pr.otherFails
                    + (IF ExecutorPosting(pr) THEN 1 ELSE 0)
    /\ pr.oks = 1 /\ pr.otherFails = 0 =>
         pr.posts = pr.retryFails + 1 /\ pr.outcome = "Success"
    /\ pr.pc = "done" /\ pr.posts > 0 /\ pr.oks = 0 /\ pr.otherFails = 0 =>
         /\ pr.posts = RetryCount
         /\ pr.retryFails = RetryCount
         /\ pr.outcome = "Failed"

C10_Witness ==
  \E p \in Procs :
    /\ procs[p].pc = "done" /\ procs[p].termCalls = 1
    /\ procs[p].retryFails = 2 /\ procs[p].oks = 1
    /\ procs[p].posts = 3 /\ procs[p].outcome = "Success"


\* C11: a not-found answer (404) ends the executor operation at once: no
\* further attempt follows it, terminate returns success and transfer
\* returns failure; when not-found is the first answer, exactly one
\* attempt was made.
C11_NotFoundNotRetried ==
  \A p \in Procs :
    LET pr == procs[p] IN
    pr.notFounds > 0 =>
      /\ pr.notFounds = 1
      /\ pr.pc = "done" /\ ~ExecutorPosting(pr)
      /\ pr.posts = pr.retryFails + pr.otherFails
      /\ pr.termCalls = 1 => Returned(pr)
      /\ pr.transCalls = 1 => ~Returned(pr)
      /\ pr.retryFails = 0 /\ pr.otherFails = 1 => pr.posts = 1

C11_Witness ==
  \E p \in Procs :
    /\ procs[p].pc = "done" /\ procs[p].termCalls = 1
    /\ procs[p].notFounds = 1 /\ procs[p].posts = 1
    /\ procs[p].outcome = "AlreadyGone"

\* C12: an authentication (401) or malformed-request (400) answer ends the
\* executor operation of backend/main.py at once, for terminate and for
\* transfer by either method: no attempt and no backoff wait follows it,
\* the outcome is Failed, and when it is the first answer exactly one
\* attempt was made.
C12_NonRetryableFailsFast ==
  \A p \in Procs :
    LET pr == procs[p] IN
    app = "backend" /\ pr.otherFails - pr.notFounds > 0 =>
      /\ pr.otherFails - pr.notFounds = 1
      /\ pr.pc = "done" /\ ~ExecutorPosting(pr)
      /\ pr.outcome = "Failed"
      /\ pr.retryFails = 0 => pr.posts = 1

\* C13: when the terminate of a screening request has returned success
\* (after a 200, or after a 404), the store record of the call, and its
\* registry entry when there is one, have status=terminated and
\* terminated_at set (one handler at a time, no store operation failed).
C13_TerminateResultMerged ==
  \A p \in Procs :
    LET pr == procs[p] IN
    ( /\ app = "backend" /\ faults = 0
      /\ pr.pc = "done" /\ pr.termCalls = 1 /\ Returned(pr) )
    => /\ \E r \in RowOf(store, pr.cid) :
            r.status = "terminated" /\ r.terminated_at # NoTime
       /\ InRegistry(pr.cid) =>
            /\ Get(active_calls[pr.cid], "status") = "terminated"
            /\ Get(active_calls[pr.cid], "terminated_at") # NoTime

\* handler p is inside an executor operation
InExecutor(pr) == pr.pc \in {"t_post", "x_post", "c_post", "x_pre"}

\* transfer_initiated is set somewhere: in a store record, in a registry
\* entry or in a record a handler is about to write
TransferMarked(rows, reg, prs) ==
  \/ \E r \in rows : r.transfer_initiated = 1
  \/ \E c \in DOMAIN reg : Get(reg[c], "transfer_initiated") = 1
  \/ \E q \in Procs : Get(prs[q].data, "transfer_initiated") = 1

\* C14: a step of an executor operation in which no 200 is received (an
\* attempt that fails, the precondition check, the last failure) changes
\* neither the store nor the registry, and transfer_initiated is set
\* nowhere before a transfer POST has been answered with 200.
C14_FailedActionNoUpdate ==
  [][/\ \A p \in Procs :
          ( /\ InExecutor(procs[p])
            /\ restarts' = restarts
            /\ procs'[p].pc # procs[p].pc \/ procs'[p].posts # procs[p].posts
            /\ procs'[p].oks = procs[p].oks )
          => store' = store /\ active_calls' = active_calls
     /\ ( ~TransferMarked(store, active_calls, procs)
          /\ TransferMarked(store', active_calls', procs') )
          => \E p \in Procs :
               /\ procs[p].pc \in {"x_post", "c_post"}
               /\ procs[p].transCalls = 1
               /\ procs'[p].oks = procs[p].oks + 1]_vars

C14_Witness ==
  \E p \in Procs :
    /\ procs[p].pc = "done" /\ procs[p].transCalls = 1
    /\ procs[p].outcome = "Failed" /\ procs[p].posts = RetryCount
    /\ InRegistry(procs[p].cid)
    /\ Get(active_calls[procs[p].cid], "transfer_initiated") # 1
    /\ \E r \in RowOf(store, procs[p].cid) : r.transfer_initiated = 0

\* the status this process knows for call c: its registry entry's and
\* its store record's
KnownStatus(c) ==
  (IF InRegistry(c) THEN {Get(active_calls[c], "status")} ELSE {})
    \cup {r.status : r \in RowOf(store, c)}

\* C15: a transfer in backend/main.py, from a SAFE screening request or
\* from /api/transfer-call, by either method: while the call is known as
\* ended or terminated no POST is made, and the transfer of a call with no
\* known status does make its POST (one handler at a time, no store
\* operation failed).
C15_TransferPrecondition ==
  \A p \in Procs :
    LET pr == procs[p] IN
    ( /\ app = "backend" /\ faults = 0 /\ overlaps = 0
      /\ pr.transCalls = 1 /\ pr.oks = 0 )
    => /\ KnownStatus(pr.cid) \cap {"ended", "terminated"} # {} =>
            pr.posts = 0 /\ (pr.pc = "done" => ~Returned(pr))
       /\ KnownStatus(pr.cid) \subseteq {NULL} /\ pr.pc = "done" =>
            pr.posts >= 1

\* what an executor operation can return with
Outcomes == {"Success", "AlreadyGone", "Failed", "NotFound", "Skipped"}

\* C16: a handler that called terminate or transfer and has finished got
\* a return value from it, whatever the remote answered and whether or not
\* a store read or write failed on the way; no exception ended it.
C16_ExecutorNeverRaises ==
  \A p \in Procs :
    LET pr == procs[p] IN
    pr.pc = "done" /\ pr.termCalls + pr.transCalls = 1 =>
      /\ pr.outcome \in Outcomes
      /\ pr.response # "error"
      /\ pr.oks = 1 <=> pr.outcome = "Success"

C16_Witness ==
  \E p \in Procs :
    /\ procs[p].pc = "done" /\ procs[p].transCalls = 1
    /\ procs[p].outcome = "Success" /\ faults > 0
    /\ RowOf(store, procs[p].cid) = {}

\* C17: a screening request without call_id or transcript and a transfer
\* request without call_id are answered with a 4xx status and touch
\* neither registry nor store, classifier or remote API; no handler runs
\* on a missing call_id or transcript.
C17_ClientErrorsMutateNothing ==
  [][\A p \in Procs :
       /\ ( /\ procs[p].kind = "idle"
            /\ procs'[p].kind \in {"screen_rejected", "transfer_rejected"} )
          => /\ procs'[p].response \in {"400", "422"}
             /\ store' = store /\ active_calls' = active_calls
             /\ procs'[p].verdict = NULL
             /\ procs'[p].posts = 0
       /\ procs'[p].kind = "screen" =>
            ~Falsy(procs'[p].cid) /\ ~Falsy(procs'[p].transcript)
       /\ procs'[p].kind = "transfer_req" => ~Falsy(procs'[p].cid)]_vars

\* C18: a direct screening request and a Retell-tool request with the same
\* call_id and transcript are interchangeable: from every state, whatever
\* one of them does (rejection and its status, or the handler started with
\* its verdict, registry change and chosen action) the other does too.
\* (Only a step that takes a handler from idle into POST /wisp-screen can
\* be a step of either request, so the others need no comparison.)
C18_WireShapeEquivalence ==
  [][\A p \in Procs :
       ( /\ procs[p].kind = "idle"
         /\ procs'[p].kind \in {"screen", "screen_rejected"} )
       => \A c \in CallIdValues, tr \in TranscriptValues, v \in Verdict :
            wisp_screen_request(p, Flat(c, tr), v)
              <=> wisp_screen_request(p, Nested(c, tr), v)]_vars

\* both a validated and a turned-away screening request have been handled
C18_Witness ==
  /\ \E p \in Procs : procs[p].kind = "screen_rejected"
                       /\ procs[p].response = "422"
  /\ \E i \in 1..Len(hist) : hist[i][1] = "screen"

\* the columns the signals of a finished handler set: those of its own
\* signal and, for a successful action, those of the action's result
HandlerSets(pr) ==
  (IF pr.kind = "transfer_req" THEN {} ELSE SignalSets(pr.kind))
    \cup (IF pr.outcome = "Success" /\ pr.termCalls = 1
            THEN SignalSets("terminate") ELSE {})
    \cup (IF pr.outcome = "Success" /\ pr.transCalls = 1
            THEN SignalSets("transfer") ELSE {})

\* the first handler to run on an empty store and an empty registry has
\* finished, and every store operation worked
ColdHandlerDone(p) ==
  /\ app = "backend" /\ faults = 0 /\ restarts = 0 /\ hist = <<>>
  /\ procs[p].pc = "done" /\ HandlerSets(procs[p]) # {}
  /\ \A q \in Procs \ {p} : procs[q].pc = "idle"

\* C19: a signal for a call_id with no store record and no registry entry
\* is handled without error, and afterwards the store holds a record for
\* the call_id with created_at, updated_at and the columns the signal sets.
C19_ColdStart ==
  \A p \in Procs :
    ColdHandlerDone(p) =>
      /\ procs[p].response \notin {"error", "400", "422", "500"}
      /\ \E r \in RowOf(store, procs[p].cid) :
           \A f \in HandlerSets(procs[p]) \cup {"created_at", "updated_at"} :
             r[f] # NullRow[f]

\* C20: processing call_ended a second time, right after the first, leaves
\* the store record as the first left it on every column but updated_at
\* (stated for the runs in which no store operation failed).
C20_CallEndedIdempotent ==
  [][\A p \in Procs :
       ( /\ faults' = 0 /\ restarts' = restarts /\ WriteBy(p)
         /\ procs[p].wkind = "call_ended"
         /\ hist # <<>> /\ hist[Len(hist)] = <<"call_ended", procs[p].cid, NULL>> )
       => \A r \in RowOf(store, procs[p].cid) :
            \A r2 \in RowOf(store', procs[p].cid) :
              \A f \in Columns \ {"updated_at"} : r2[f] = r[f]]_vars

\* C21: no store record and no registry entry has a null call_id, whatever
\* arrives, a webhook without call.call_id included.
C21_CallIdNeverNull ==
  app = "backend" =>
    /\ \A r \in store : r.call_id # NULL
    /\ \A k \in DOMAIN active_calls : k # NULL

\* C22: with a webhook secret configured, a webhook whose header carries
\* under d a digest that is not the HMAC-SHA256 of the body is answered
\* 401 and changes neither registry nor store.
C22_SignatureEnforced ==
  [][\A p \in Procs, c \in ids :
       ( /\ app = "backend"
         /\ retell_webhook(p, TRUE, [form |-> "pairs", d |-> "bad"], c) )
       => /\ procs'[p].response = "401"
          /\ store' = store
          /\ active_calls' = active_calls]_vars

\* C23: whatever the classifier gives (well-formed, malformed, empty, or a
\* failure), the summary returned has exactly 5 words; a SUMMARY line of
\* more words is cut to its first 5, one of fewer is filled up with "call".
C23_SummaryFiveWords ==
  analysis # NoAnalysis =>
    /\ Len(analysis.summary) = 5
    /\ ( classifier.kind = "text" /\ ~Fallback(classifier.text) ) =>
         \A i \in 1..5 :
           analysis.summary[i] =
             IF i <= Len(ParsedSummary(classifier.text))
               THEN ParsedSummary(classifier.text)[i]
               ELSE "call"

\* a summary line of fewer than 5 words has been analysed
C23_Witness ==
  /\ analysis # NoAnalysis
  /\ classifier.kind = "text" /\ ~Fallback(classifier.text)
  /\ Len(ParsedSummary(classifier.text)) \in 1..4

\* the status the store holds for a call_id; NULL when it holds no record
StoreStatus(rows, c) ==
  IF get_call_endpoint(rows, c) = <<>> THEN NULL
  ELSE get_call_endpoint(rows, c)[1].status

\* C24: what is exposed is the store's view: when the transfer endpoint has
\* read the store (the read did not fail), every field of its call
\* information, the registry-named ones included, says what the store
\* says about the call: whether there is a record, whether it is among
\* the store's active calls, and its status.
C24_ExposedStateIsStore ==
  [][\A p \in Procs :
       ( /\ procs[p].pc = "te_get" /\ procs'[p].pc # "te_get"
         /\ faults' = faults /\ restarts' = restarts )
       => LET ci == procs'[p].call_info
              c == procs[p].cid
          IN /\ ci.in_database = (get_call_endpoint(store, c) # <<>>)
             /\ ci.db_status = StoreStatus(store, c)
             /\ ci.in_active_calls =
                  (\E r \in get_active_calls_endpoint(store) : r.call_id = c)
             /\ ci.active_call_status = StoreStatus(store, c)]_vars

\* C25: the store never holds two records for one call_id, and a call_id
\* that has a record keeps having one: nothing deletes a record.
C25_OneRecordNeverDeleted ==
  /\ [](\A c \in CallIds : Cardinality(RowOf(store, c)) <= 1)
  /\ [][\A r \in store : RowOf(store', r.call_id) # {}]_vars

\* a record has been written over: its last write is later than its first
C25_Witness ==
  \E r \in store : r.call_id \in CallIds /\ r.updated_at > r.created_at

\* every ended record has its ended_at, every terminated one its
\* terminated_at
StatusHasTimestamp ==
  \A r \in store :
    /\ r.status = "ended" => r.ended_at # NoTime
    /\ r.status = "terminated" => r.terminated_at # NoTime

\* C26: a record with status ended has an ended_at and one with status
\* terminated has a terminated_at; and the write of a call_ended or of a
\* terminate result onto a record that already has that timestamp keeps it.
C26_StatusTimestampConsistent ==
  /\ []StatusHasTimestamp
  /\ [][\A p \in Procs :
         (app = "backend" /\ WriteBy(p) /\ restarts' = restarts) =>
           \A r \in RowOf(store, procs[p].cid) :
             \A r2 \in RowOf(store', procs[p].cid) :
               /\ ( procs[p].wkind = "call_ended" /\ r.ended_at # NoTime )
                    => r2.ended_at = r.ended_at
               /\ ( procs[p].wkind = "terminate"
                    /\ r.terminated_at # NoTime )
                    => r2.terminated_at = r.terminated_at]_vars

\* C27: within a screening request the verdict write is over (done or
\* failed) before the first remote attempt is issued, no verdict write
\* runs once an attempt has been made, and the action's own update is
\* written only after the remote API has answered with success.
C27_ScreeningOrder ==
  /\ [](\A p \in Procs :
          procs[p].kind = "screen" =>
            /\ procs[p].wkind = "screen" => procs[p].posts = 0
            /\ procs[p].wkind \in {"terminate", "transfer"}
                 => procs[p].oks = 1)
  /\ [][\A p \in Procs :
         procs'[p].kind = "screen" =>
           /\ ( procs[p].posts = 0 /\ procs'[p].posts = 1 )
                => \/ procs[p].pc = "cu_write" /\ procs[p].wkind = "screen"
                   \/ procs[p].pc = "x_pre"
           /\ ( procs[p].pc # "x_pre" /\ procs'[p].pc = "x_pre" )
                => procs[p].pc = "cu_write" /\ procs[p].wkind = "screen"]_vars

\* a screening request is writing its action's update: the verdict write
\* and a successful remote call lie behind it
C27_Witness ==
  \E p \in Procs :
    /\ procs[p].kind = "screen" /\ procs[p].pc = "cu_write"
    /\ procs[p].wkind \in {"terminate", "transfer"}
    /\ \E r \in RowOf(store, procs[p].cid) :
         r.screening_verdict = procs[p].verdict

\* handler p's store write fails in this step
WriteFails(p) ==
  /\ WriteBy(p) /\ faults' = faults + 1 /\ restarts' = restarts

\* C28: a store write that fails leaves the store exactly as it was and
\* the registry as it is, with the handler's update in the entry if there
\* is one (when no other handler for the call ran alongside, which may
\* have changed the entry since), and the handler goes on as after a
\* write that worked: a webhook answers ok, a screening request goes on to
\* its action and returns its verdict, an executor returns its outcome.
C28_WriteFailureNonFatalAtomic ==
  /\ [][\A p \in Procs :
         WriteFails(p) =>
           /\ store' = store
           /\ active_calls' = active_calls
           /\ \A f \in SignalSets(procs[p].wkind) :
                ( ~procs[p].overlapped
                  /\ procs[p].cid \in DOMAIN active_calls ) =>
                  Get(active_calls[procs[p].cid], f) = Get(procs[p].data, f)
           /\ procs'[p].response # "error"
           /\ procs[p].wkind \in {"call_started", "call_ended",
                                  "call_transferred"}
                => procs'[p].pc = "done" /\ procs'[p].response = "ok"
           /\ procs[p].wkind = "screen"
                => \/ ExecutorPosting(procs'[p]) \/ procs'[p].pc = "x_pre"
                   \/ procs'[p].pc = "done"
                        /\ procs'[p].response = procs[p].verdict
           /\ procs[p].wkind \in {"terminate", "transfer"}
                => procs'[p].pc = "done" /\ procs'[p].outcome = "Success"]_vars
  /\ [](\A p \in Procs : procs[p].response # "error")

\* a handler has finished although one of its store writes failed
C28_Witness ==
  \E p \in Procs :
    /\ procs[p].pc = "done" /\ faults > 0
    /\ procs[p].kind \in {"call_started", "screen"}
    /\ RowOf(store, procs[p].cid) = {}

\* the registry entry of a call_id; <<>> when there is none
EntryOf(reg, c) == IF c \in DOMAIN reg THEN <<reg[c]>> ELSE <<>>

\* C29: a step changes the store record or the registry entry of a call_id
\* only when it is a step of a handler for that call_id (or the restart of
\* the process, which empties the registry): handlers for one call leave
\* every other call's record and entry as they are, however they interleave.
C29_CrossCallIndependence ==
  [][\A c \in CallIds :
       ( \/ RowOf(store', c) # RowOf(store, c)
         \/ EntryOf(active_calls', c) # EntryOf(active_calls, c) )
       => \/ restarts' # restarts
          \/ /\ \E p \in Procs : procs'[p] # procs[p]
             /\ \A p \in Procs :
                  procs'[p] # procs[p] =>
                    c \in {procs[p].cid, procs'[p].cid}]_vars

\* handlers for two calls have run side by side and both calls have a
\* record and an entry
C29_Witness ==
  /\ overlaps > 0
  /\ \A c \in CallIds : RowOf(store, c) # {} /\ c \in DOMAIN active_calls
  /\ \E p, q \in Procs : /\ procs[p].cid = "X" /\ procs[q].cid = "Y"
                          /\ procs[p].pc = "done" /\ procs[q].pc = "done"

ActionEnded(pr) ==
  /\ pr.posts <= RetryCount
  /\ pr.outcome \in {"Success", "AlreadyGone", "NotFound", "Failed"}
  /\ pr.outcome = "Success" <=> pr.oks = 1
  /\ pr.outcome \in {"AlreadyGone", "NotFound"} => pr.notFounds = 1
  /\ pr.outcome = "Failed" =>
       pr.posts = RetryCount \/ pr.otherFails - pr.notFounds > 0

\* C31: when every await returns, every accepted screening request comes
\* to its response, which is its verdict, and by then the action it
\* started with a remote attempt has ended in success, not-found, or a
\* failure (non-retryable answer or retries exhausted) after at most
\* RetryCount attempts.
C31_Completion ==
  /\ \A p \in Procs :
       (procs[p].kind = "screen") ~>
         (procs[p].kind = "screen" /\ procs[p].pc = "done")
  /\ [](\A p \in Procs :
         procs[p].kind = "screen" /\ procs[p].pc = "done" =>
           /\ procs[p].response = procs[p].verdict
           /\ procs[p].termCalls + procs[p].transCalls = 1
           /\ procs[p].posts <= RetryCount
           /\ procs[p].posts > 0 => ActionEnded(procs[p]))

\* a screening request has returned after its terminate used every attempt
C31_Witness ==
  \E p \in Procs :
    /\ procs[p].kind = "screen" /\ procs[p].pc = "done"
    /\ procs[p].termCalls = 1 /\ procs[p].posts = RetryCount
    /\ procs[p].outcome = "Failed"

\* C32: the transcript stored for a call, once it is not null, is never
\* replaced by null or by a shorter string (stated for backend/main.py and
\* the runs in which no store operation failed and the process stayed up).
C32_TranscriptNeverShrinks ==
  [][( app = "backend" /\ faults' = 0 /\ restarts' = 0 ) =>
       \A r \in store :
         r.transcript # NULL =>
           \E r2 \in store' :
             /\ r2.call_id = r.call_id
             /\ r2.transcript # NULL
             /\ Len(r2.transcript) >= Len(r.transcript)]_vars

\* the store record of c equals the registry entry of c on every column
\* but updated_at (a key absent from the entry reads as null)
Coherent(reg, rows, c) ==
  /\ c \in DOMAIN reg
  /\ \E r \in RowOf(rows, c) :
       \A f \in Columns \ {"updated_at"} : Get(reg[c], f) = r[f]

\* C33: when a signal for a call has been processed, whichever signal it
\* is, the registry has an entry for the call and the entry and the store
\* record hold the same merged record (stated for backend/main.py and the
\* runs in which no store operation failed).
C33_WriteBackToBoth ==
  \A p \in Procs :
    ( /\ app = "backend" /\ faults = 0
      /\ procs[p].pc = "done"
      /\ procs[p].kind \in {"call_started", "call_ended",
                            "call_transferred", "screen"} )
    => Coherent(active_calls, store, procs[p].cid)

\* C34: in backend/main.py, when handlers run one at a time and no store
\* operation fails, after each handler the store record of every call in
\* the registry equals the registry entry on every column but updated_at.
C34_RegistryStoreCoherence ==
  ( app = "backend" /\ faults = 0 /\ AllIdle ) =>
    \A c \in DOMAIN active_calls : Coherent(active_calls, store, c)

\* after call_started, a screening and a third signal the call's entry and
\* its record agree, verdict and status included
C34_Witness ==
  /\ app = "backend" /\ faults = 0 /\ AllIdle /\ Len(hist) >= 3
  /\ \E c \in DOMAIN active_calls :
       /\ Get(active_calls[c], "screening_verdict") # NULL
       /\ Get(active_calls[c], "status") \in {"ended", "terminated"}
       /\ Coherent(active_calls, store, c)

\* C35: when the classifier is unavailable or raises, analyze_with_gemini
\* returns SAFE; the screening request then writes SAFE to the record,
\* invokes the transfer and never the terminate, and no record is
\* terminated.
C35_FailOpen ==
  /\ [](classifier.kind \in {"no_ollama", "no_server", "exception"} =>
         /\ analysis # NoAnalysis => analysis.verdict = "SAFE"
         /\ \A p \in Procs :
              procs[p].kind = "screen" =>
                /\ procs[p].verdict = "SAFE"
                /\ procs[p].termCalls = 0
                /\ procs[p].pc = "done" => procs[p].transCalls = 1
         /\ \A r \in store :
              r.screening_verdict # "SCAM" /\ r.status # "terminated")
  /\ [][\A p \in Procs :
         ( /\ classifier.kind \in {"no_ollama", "no_server", "exception"}
           /\ WriteBy(p) /\ procs[p].wkind = "screen"
           /\ faults' = faults /\ restarts' = restarts )
         => \E r \in RowOf(store', procs[p].cid) :
              r.screening_verdict = "SAFE"]_vars

\* generate raised, and a screening request has stored SAFE and returned
\* after its transfer
C35_Witness ==
  /\ classifier.kind = "exception"
  /\ \E p \in Procs :
       /\ procs[p].kind = "screen" /\ procs[p].pc = "done"
       /\ procs[p].transCalls = 1 /\ procs[p].posts > 0
       /\ \E r \in RowOf(store, procs[p].cid) : r.screening_verdict = "SAFE"

\* the keys of a record call_started has written
StartedKeys ==
  {"call_id", "from_number", "to_number", "started_at", "status",
   "created_at", "updated_at"}

C37_RegistryOnlyGrows ==
  /\ [][restarts' = restarts =>
         /\ DOMAIN active_calls \subseteq DOMAIN active_calls'
         /\ \A c \in DOMAIN active_calls' \ DOMAIN active_calls :
              \E p \in Procs :
                /\ procs[p].pc = "idle"
                /\ procs'[p].kind = "call_started" /\ procs'[p].cid = c]_vars
  /\ [](\A c \in DOMAIN active_calls :
         Get(active_calls[c], "status") \in {"active", "ended", "terminated"})

\* the call is still in the registry after call_ended and a terminate that
\* succeeded
C37_Witness ==
  /\ restarts = 0
  /\ \E c \in DOMAIN active_calls :
       /\ Get(active_calls[c], "status") = "terminated"
       /\ Get(active_calls[c], "ended_at") # NoTime
       /\ \E i \in 1..Len(hist) : hist[i] = <<"call_ended", c, NULL>>

====
